---- MODULE Spec2Model ----
(***************************************************************************)
(* Model of metastock/files.py: the three index-file parsers (EMASTER,     *)
(* XMASTER, MASTER) and the per-symbol conversion (DataFileInfo).          *)
(*                                                                         *)
(* Two state machines share this module:                                   *)
(*   Spec       output_ascii -> convert2ascii -> _load_columns /           *)
(*              load_candles, one stock after the other;                   *)
(*   SpecIndex  __init__ / _read_file_info of the three index classes.     *)
(* Files are streams: their content is drawn when the code reads it.       *)
(***************************************************************************)
EXTENDS Integers, Sequences, FiniteSets, TLC

VARIABLES
  \* ---- output_ascii / convert2ascii ----
  pc,            \* position of the run
  nstocks,       \* len(self.stocks)
  yyyymmdd,      \* int(MS2TXT_YYYYMMDD) or 0
  idx,           \* index (1-based) of the stock the for loop is at
  selLog,        \* for each stock visited: was it selected
  called,        \* indices convert2ascii was called for, in call order
  reported,      \* stocks an "Error while converting symbol" report (with
                 \* the traceback of exc) was printed for
  exc,           \* the exception in flight ("none" when there is none)
  handles,       \* the file handles that are open
  cur,           \* the DataFileInfo being converted
  dopfound,      \* did _load_columns find the DOP file
  colobjs,       \* load_candles' local list `columns` of decoders
  max_recs,      \* DataFileInfo.max_recs
  last_rec,      \* DataFileInfo.last_rec
  flen,          \* length in bytes of the data file, None until a read
                 \* has met its end
  cursor,        \* position of file_handle in the data file
  recIdx,        \* number of iterations of the record loop completed
  perform_write, \* load_candles' local perform_write
  out,           \* text written to the CSV sink, as tokens
  recs,          \* the words of the data records read so far
  reads,         \* log of the values decoded: [k, j, off, w]
  \* ---- index file parsing ----
  ipc,           \* position of __init__
  fmt,           \* which class parses: "A" EMASTER, "B" XMASTER, "C" MASTER
  files_no,      \* records still to read
  record_count,  \* the count the header declared
  stocks,        \* self.stocks
  raw,           \* the records of the index file read so far
  short,         \* "no", or the kind of field the stream ended in
  ihandle        \* is the index file handle open

cvars == <<pc, nstocks, yyyymmdd, idx, selLog, called, reported,
           exc, handles, cur, dopfound, colobjs, max_recs, last_rec, flen,
           cursor, recIdx, perform_write, out, recs, reads>>
ivars == <<ipc, fmt, files_no, record_count, stocks, raw, short, ihandle>>
vars == <<cvars, ivars>>

(***************************************************************************)
(* Bounds of the model.                                                    *)
(***************************************************************************)
MaxStocks == 2     \* stocks in the index
MaxNames == 3      \* column names in a DOP file
MaxRecs == 2       \* data records a DAT file declares
MaxIndexRecs == 2  \* records an index file declares

(***************************************************************************)
(* Python values.                                                          *)
(***************************************************************************)
None == -999

Min(a, b) == IF a < b THEN a ELSE b
Max(a, b) == IF a > b THEN a ELSE b

RECURSIVE Pow2(_)
Pow2(n) == IF n = 0 THEN 1 ELSE 2 * Pow2(n - 1)

\* ((1 << bit_position) & bit_fields) > 0, on Python's two's complement ints
BitSet(bit_fields, bit_position) ==
  ((bit_fields % 256) \div Pow2(bit_position)) % 2 = 1

\* bool(x) of an int or None
Truthy(x) == x # None /\ x # 0

\* Python 2 orders None below every int: len(lines) > self.num_fields
PyGreater(n, x) == IF x = None THEN TRUE ELSE n > x

\* list.index(x): position (0-based) of the first occurrence
RECURSIVE IndexFrom(_, _, _)
IndexFrom(s, x, i) ==
  IF i > Len(s) THEN None
  ELSE IF s[i] = x THEN i - 1 ELSE IndexFrom(s, x, i + 1)
IndexOf(s, x) == IndexFrom(s, x, 1)

(***************************************************************************)
(* NumericCodec (metastock/utils.py).                                      *)
(* A 4-byte word of a data file is modelled by the number the legacy float *)
(* decodes to.                                                             *)
(***************************************************************************)
\* the None a date decoder returns
NoDate == [year |-> 0, month |-> 0, day |-> 0]

\* float2date: the date packed as (year - 1900) * 10000 + month * 100 + day,
\* NoDate when the value is no calendar date
float2date(w) ==
  LET m == (w % 10000) \div 100
      d == w % 100
  IN IF w >= 0 /\ m \in 1..12 /\ d \in 1..31
     THEN [year |-> 1900 + (w \div 10000), month |-> m, day |-> d]
     ELSE NoDate

\* fmsbin2ieee: fails (struct.error) unless it is given 4 bytes
fmsbin2ieeeFails(got) == got < 4

(***************************************************************************)
(* Column decoders (DataFileInfo.Column and subclasses, knownMSColumns).   *)
(***************************************************************************)
dataSize == 4
unknownColumnDataSize == 4

\* knownMSColumns.get(name): the decoder, or None for an unknown name
knownMSColumns(name) ==
  CASE name = "DATE"  -> [cls |-> "DateColumn",  name |-> "Date"]
    [] name = "TIME"  -> [cls |-> "TimeColumn",  name |-> "Time"]
    [] name = "OPEN"  -> [cls |-> "FloatColumn", name |-> "Open"]
    [] name = "HIGH"  -> [cls |-> "FloatColumn", name |-> "High"]
    [] name = "LOW"   -> [cls |-> "FloatColumn", name |-> "Low"]
    [] name = "CLOSE" -> [cls |-> "FloatColumn", name |-> "Close"]
    [] name = "VOL"   -> [cls |-> "IntColumn",   name |-> "Volume"]
    [] name = "OI"    -> [cls |-> "IntColumn",   name |-> "Oi"]
    [] OTHER          -> [cls |-> "None",        name |-> ""]

IsNone(column) == column.cls = "None"

\* DateColumn.format followed by int(value): the digits of
\* "%02d%02d%02d" % (year, month, day) read as a number
DateFormat(value) == value.year * 10000 + value.month * 100 + value.day

(***************************************************************************)
(* Inputs of a conversion run.                                             *)
(***************************************************************************)
\* bit_fields and num_fields values an index record carries (one byte
\* each); the masks have at most two bits set
BitFieldValues == {0, 1, 3, 5, 6}
NumFieldsValues == {0, 2}

\* the DataFileInfo objects the three parsers build: EMASTER sets num_fields
\* and bit_fields, XMASTER sets bit_fields only, MASTER sets neither
DfiSet ==
  {[num_fields |-> n, bit_fields |-> b, bits |-> <<>>, columns |-> <<>>] :
       n \in NumFieldsValues \cup {None}, b \in BitFieldValues}
  \cup {[num_fields |-> None, bit_fields |-> None, bits |-> <<>>,
         columns |-> <<>>]}

NoDfi == [num_fields |-> None, bit_fields |-> None, bits |-> <<>>,
          columns |-> <<>>]

\* column names a DOP file declares: the date, a float, an unknown name
ColumnNames == {"DATE", "OPEN", "XYZ"}

\* the name lists of a DOP file: each column declared once
LinesSet ==
  UNION {{s \in [1..n -> ColumnNames] :
            \A a, b \in 1..n : a # b => s[a] # s[b]} : n \in 0..MaxNames}

\* the words of a data file: no date, 2020-01-02, 2020-01-04
Words == {0, 1200102, 1200104}

\* values of MS2TXT_YYYYMMDD: unset, or a cutoff equal to the later date
Cutoffs == {0, 20200104}


(***************************************************************************)
(* DataFileInfo._load_columns                                              *)
(***************************************************************************)
\* the handles _load_columns leaves open once it has read the DOP file
DopAfterRead(h) == h \ {"dop"}

\* the bits list built from bit_fields
BitsOf(bit_fields) ==
  [i \in 1..8 |-> IF BitSet(bit_fields, i - 1) THEN 1 ELSE 0]

RECURSIVE SumSeq(_)
SumSeq(s) == IF s = <<>> THEN 0 ELSE Head(s) + SumSeq(Tail(s))

\* num_fields after the bitmask loop
ResolveNumFields(dfi) ==
  IF Truthy(dfi.bit_fields) THEN SumSeq(BitsOf(dfi.bit_fields))
  ELSE dfi.num_fields

\* dop: which of F<n>.DOP / F<n>.dop exists; lines: its names
\* result: the exception raised, the object afterwards, the handles open
LoadColumns(dfi, dop, lines, h) ==
  IF dop = "none" THEN [exc |-> "IOError", dfi |-> dfi, handles |-> h]
  ELSE
    LET h1 == DopAfterRead(h \cup {"dop"})
        bits == IF Truthy(dfi.bit_fields) THEN BitsOf(dfi.bit_fields)
                ELSE <<>>
        nf == ResolveNumFields(dfi)
        d1 == [dfi EXCEPT !.bits = bits, !.num_fields = nf]
    IN IF nf = None
       \* len(lines) > None holds for ever: pop() on the emptied list
       THEN [exc |-> "IndexError", dfi |-> d1, handles |-> h1]
       ELSE
         LET kept == IF PyGreater(Len(lines), nf)
                     THEN SubSeq(lines, 1, nf) ELSE lines
         IN IF Len(kept) # nf
            THEN [exc |-> "AssertionError", dfi |-> d1, handles |-> h1]
            ELSE [exc |-> "none", dfi |-> [d1 EXCEPT !.columns = kept],
                  handles |-> h1]

(***************************************************************************)
(* DataFileInfo.load_candles                                               *)
(***************************************************************************)
Tok(t, k, j, v, name) == [t |-> t, k |-> k, j |-> j, v |-> v, name |-> name]

\* the header loop: one '"<display name>"' per name whose bit is set and
\* whose decoder is known; every decoder (or None) is appended to columns
RECURSIVE HeaderCols(_, _, _, _)
HeaderCols(columns, bits, i, st) ==
  IF i > Len(columns) \/ st.exc # "none" THEN st
  ELSE
    LET column == knownMSColumns(columns[i])
        at == IndexOf(columns, columns[i])
    IN IF at >= Len(bits)
       THEN [st EXCEPT !.exc = "IndexError"]
       ELSE HeaderCols(columns, bits, i + 1,
              [st EXCEPT
                 !.out = IF bits[at + 1] # 0 /\ ~IsNone(column)
                         THEN Append(@, Tok("hcol", -1, i - 1, 0, column.name))
                         ELSE @,
                 !.colobjs = Append(@, column)])

\* file_handle.read(n) at position c of a file of len bytes: bytes returned
\* (a negative n reads to the end of the file)
ReadGot(c, n, len) == IF n < 0 THEN len - c ELSE Min(n, Max(0, len - c))

\* the text a decoder's format gives for word w, as the number it spells:
\* FloatColumn writes precision = 2 decimals, IntColumn the integer
precision == 2
RECURSIVE Pow10(_)
Pow10(n) == IF n = 0 THEN 1 ELSE 10 * Pow10(n - 1)
FormatValue(cls, w) ==
  CASE cls = "DateColumn"  -> DateFormat(float2date(w))
    [] cls = "FloatColumn" -> w * Pow10(precision)
    [] OTHER               -> w

\* perform_write = (int(value) >= yyyymmdd); the variant drops the record
\* dated exactly at the cutoff
PassesCutoff_Strict(value, cutoff) == value > cutoff
PassesCutoff(value, cutoff) == value >= cutoff

\* file_handle.read(self.unknownColumnDataSize): the cursor afterwards; the
\* variant ignores the column without reading it
SkipUnknown_NoRead(c, len) == c
SkipUnknown(c, len) == c + ReadGot(c, unknownColumnDataSize, len)

\* one pass of `for col in columns` from column j on; words are the words of
\* this record present in the file, start the record's first byte
RECURSIVE ReadCols(_, _, _, _, _, _, _)
ReadCols(cols, j, st, words, start, len, k) ==
  IF j > Len(cols) \/ st.exc # "none" THEN st
  ELSE
    LET col == cols[j]
        wi == ((st.cursor - start) \div 4) + 1
    IN IF IsNone(col)
       THEN ReadCols(cols, j + 1,
              [st EXCEPT !.cursor = SkipUnknown(@, len)],
              words, start, len, k)
       ELSE
         LET got == ReadGot(st.cursor, dataSize, len)
             s1 == [st EXCEPT !.cursor = @ + got]
         IN IF fmsbin2ieeeFails(got)
            THEN [s1 EXCEPT !.exc = "struct.error"]
            ELSE IF col.cls = "TimeColumn"
            THEN [s1 EXCEPT !.exc = "AttributeError"]
            ELSE
              LET w == words[wi]
                  s2 == [s1 EXCEPT
                           !.reads = Append(@, [k |-> k, j |-> j - 1,
                                                off |-> st.cursor, w |-> w])]
              IN IF col.cls = "DateColumn" /\ float2date(w) = NoDate
                 \* format gives 'None', int('None') raises
                 THEN [s2 EXCEPT !.exc = "ValueError"]
                 ELSE
                   LET value == FormatValue(col.cls, w)
                       pw == IF col.cls = "DateColumn"
                             THEN PassesCutoff(value, yyyymmdd) ELSE s2.pw
                       o1 == IF col.cls = "DateColumn" /\ pw
                             THEN Append(s2.out, Tok("sname", k, j - 1, 0, ""))
                             ELSE s2.out
                       o2 == IF pw
                             THEN Append(o1, Tok("val", k, j - 1, value,
                                                 col.name))
                             ELSE o1
                   IN ReadCols(cols, j + 1,
                               [s2 EXCEPT !.pw = pw, !.out = o2],
                               words, start, len, k)

\* the finally clause: what stays open; the variant closes the sink only
FinallyClose_LeakData(h) == h \ {"csv"}
FinallyClose(h) == h \ {"csv", "dat"}

(***************************************************************************)
(* DataFileInfo.convert2ascii                                              *)
(***************************************************************************)
\* does `except Exception` catch it; the variant is `except IOError`
Catches_IOErrorOnly(e) == e = "IOError"
Catches(e) ==
  e \in {"IOError", "IndexError", "AssertionError", "struct.error",
         "ValueError", "AttributeError"}


(***************************************************************************)
(* The conversion run: output_ascii over self.stocks.                      *)
(***************************************************************************)
IndexIdle ==
  /\ ipc = "idle" /\ fmt = "A" /\ files_no = 0 /\ record_count = 0
  /\ stocks = <<>> /\ raw = <<>> /\ short = "no" /\ ihandle = FALSE

\* locals of one conversion, before it starts
Scratch ==
  /\ cur = NoDfi /\ dopfound = FALSE /\ colobjs = <<>>
  /\ max_recs = 0 /\ last_rec = 0 /\ flen = None /\ cursor = 0 /\ recIdx = 0
  /\ perform_write = TRUE /\ out = <<>> /\ recs = <<>> /\ reads = <<>>

Init ==
  /\ pc = "loop"
  /\ nstocks = MaxStocks
  /\ yyyymmdd \in Cutoffs
  /\ idx = 1 /\ selLog = <<>> /\ called = <<>> /\ reported = <<>>
  /\ exc = "none" /\ handles = {}
  /\ Scratch
  /\ IndexIdle

\* output_ascii: the next stock of the for loop; it is converted when
\* all_symbols or its symbol is in symbols
NextStock ==
  /\ pc = "loop" /\ idx <= nstocks
  /\ \E dfi \in DfiSet, all_symbols \in BOOLEAN, insymbols \in BOOLEAN :
       LET sel == all_symbols \/ insymbols
       IN /\ selLog' = Append(selLog, sel)
          /\ IF sel
             THEN /\ pc' = "convert" /\ cur' = dfi
                  /\ called' = Append(called, idx) /\ idx' = idx
             ELSE /\ pc' = "loop" /\ cur' = cur
                  /\ called' = called /\ idx' = idx + 1
  /\ UNCHANGED <<nstocks, yyyymmdd, reported, exc, handles,
                 dopfound, colobjs, max_recs, last_rec, flen, cursor, recIdx,
                 perform_write, out, recs, reads, ivars>>

\* output_ascii: the for loop is exhausted
EndRun ==
  /\ pc = "loop" /\ idx > nstocks
  /\ pc' = "done"
  /\ UNCHANGED <<nstocks, yyyymmdd, idx, selLog, called, reported,
                 exc, handles, cur, dopfound, colobjs, max_recs, last_rec,
                 flen, cursor, recIdx, perform_write, out, recs, reads, ivars>>

\* convert2ascii: self._load_columns()
DoLoadColumns ==
  /\ pc = "convert"
  /\ \E dop \in {"DOP", "dop", "none"} :
     \E lines \in (IF dop = "none" THEN {<<>>} ELSE LinesSet) :
       LET r == LoadColumns(cur, dop, lines, handles)
       IN /\ cur' = r.dfi
          /\ exc' = r.exc
          /\ handles' = r.handles
          /\ dopfound' = (dop # "none")
          /\ pc' = IF r.exc = "none" THEN "load_candles" ELSE "except"
  /\ UNCHANGED <<nstocks, yyyymmdd, idx, selLog, called, reported,
                 colobjs, max_recs, last_rec, flen, cursor, recIdx,
                 perform_write, out, recs, reads, ivars>>

\* the bytes load_candles asks of the file before the record loop
HeaderBytes(num_fields) ==
  IF num_fields >= 1 THEN 4 + (num_fields - 1) * 4 ELSE 4 + dataSize

\* load_candles up to the record loop: open the data file, read its header,
\* open the sink, write the header line.  dat: which of F<n>.DAT / F<n>.MWD
\* exists; len: the bytes the file has for the header reads (HeaderBytes or
\* more when it does not end there)
OpenCandles ==
  /\ pc = "load_candles"
  /\ \E dat \in {"DAT", "MWD", "none"} :
     \E len \in (IF dat = "none" THEN {0} ELSE 0..HeaderBytes(cur.num_fields)) :
     \E lrec \in (IF len < 4 THEN {0} ELSE 0..(MaxRecs + 1)) :
     \E outOk \in (IF len < 4 THEN {TRUE} ELSE BOOLEAN) :
       LET h1 == IF dat = "none" THEN handles ELSE handles \cup {"dat"}
           n3 == (cur.num_fields - 1) * 4
           c1 == ReadGot(0, 2, len)
           c2 == c1 + ReadGot(c1, 2, len)
           c3 == c2 + ReadGot(c2, n3, len)
           ended == len < 4 \/ n3 < 0 \/ ReadGot(c2, n3, len) < n3
           hd == HeaderCols(cur.columns, cur.bits, 1,
                            [out |-> <<Tok("hname", -1, -1, 0, "Name")>>,
                             colobjs |-> <<>>, exc |-> "none"])
       IN /\ IF dat = "none"
             THEN /\ exc' = "IOError" /\ handles' = h1 /\ cursor' = 0
                  /\ flen' = None
                  /\ UNCHANGED <<max_recs, last_rec, out, colobjs>>
             ELSE IF len < 4
             THEN /\ exc' = "struct.error" /\ handles' = h1 /\ cursor' = c2
                  /\ flen' = len
                  /\ UNCHANGED <<max_recs, last_rec, out, colobjs>>
             ELSE IF ~outOk
             THEN /\ exc' = "IOError" /\ handles' = h1 /\ cursor' = c3
                  /\ flen' = IF ended THEN len ELSE None
                  /\ max_recs' = MaxRecs + 1 /\ last_rec' = lrec
                  /\ UNCHANGED <<out, colobjs>>
             ELSE /\ handles' = h1 \cup {"csv"} /\ cursor' = c3
                  /\ flen' = IF ended THEN len ELSE None
                  /\ max_recs' = MaxRecs + 1 /\ last_rec' = lrec
                  /\ exc' = hd.exc
                  /\ colobjs' = hd.colobjs
                  /\ out' = IF hd.exc = "none"
                            THEN Append(hd.out, Tok("nl", -1, -1, 0, ""))
                            ELSE hd.out
          /\ pc' = IF exc' = "none" THEN "records" ELSE "finally"
  /\ perform_write' = TRUE
  /\ UNCHANGED <<nstocks, yyyymmdd, idx, selLog, called, reported,
                 cur, dopfound, recIdx, recs, reads, ivars>>

\* one iteration of `for _ in xrange(self.last_rec - 1)`.  avail: the bytes
\* the file still has for this record (fewer than the record's size when the
\* file ends in it)
ReadRecord ==
  /\ pc = "records" /\ recIdx < last_rec - 1
  /\ LET slots == Len(colobjs)
     IN \E avail \in (IF flen = None THEN 0..(4 * slots)
                      ELSE {Max(0, flen - cursor)}) :
        \E words \in [1..(avail \div 4) -> Words] :
          LET len == cursor + avail
              st == ReadCols(colobjs, 1,
                             [cursor |-> cursor, pw |-> perform_write,
                              out |-> out, exc |-> "none", reads |-> reads],
                             words, cursor, len, recIdx)
          IN /\ cursor' = st.cursor
             /\ flen' = IF flen = None /\ avail = 4 * slots THEN None ELSE len
             /\ perform_write' = st.pw
             /\ reads' = st.reads
             /\ exc' = st.exc
             /\ recs' = Append(recs, words)
             /\ out' = IF st.exc = "none" /\ st.pw
                       THEN Append(st.out, Tok("nl", recIdx, -1, 0, ""))
                       ELSE st.out
             /\ recIdx' = IF st.exc = "none" THEN recIdx + 1 ELSE recIdx
             /\ pc' = IF st.exc = "none" THEN "records" ELSE "finally"
  /\ UNCHANGED <<nstocks, yyyymmdd, idx, selLog, called, reported,
                 handles, cur, dopfound, colobjs, max_recs, last_rec, ivars>>

\* load_candles' finally clause, reached by the end of the loop or by an
\* exception; the exception, if any, goes on to convert2ascii
CandlesFinally ==
  /\ \/ pc = "finally"
     \/ pc = "records" /\ recIdx >= last_rec - 1
  /\ handles' = FinallyClose(handles)
  /\ pc' = IF exc = "none" THEN "return" ELSE "except"
  /\ UNCHANGED <<nstocks, yyyymmdd, idx, selLog, called, reported,
                 exc, cur, dopfound, colobjs, max_recs, last_rec, flen, cursor,
                 recIdx, perform_write, out, recs, reads, ivars>>

\* convert2ascii returns to output_ascii: normally, or through its except
\* clause, which reports the exception; an exception it does not catch ends
\* the run
ConvertReturn ==
  /\ pc \in {"return", "except"}
  /\ IF pc = "return"
     THEN /\ pc' = "loop" /\ idx' = idx + 1 /\ reported' = reported
     ELSE IF Catches(exc)
     THEN /\ pc' = "loop" /\ idx' = idx + 1
          /\ reported' = Append(reported, idx)
     ELSE /\ pc' = "aborted" /\ idx' = idx /\ reported' = reported
  /\ exc' = "none"
  /\ cur' = NoDfi /\ dopfound' = FALSE /\ colobjs' = <<>>
  /\ max_recs' = 0 /\ last_rec' = 0 /\ flen' = None /\ cursor' = 0 /\ recIdx' = 0
  /\ perform_write' = TRUE /\ out' = <<>> /\ recs' = <<>> /\ reads' = <<>>
  /\ UNCHANGED <<nstocks, yyyymmdd, selLog, called, handles,
                 ivars>>

Next ==
  \/ NextStock
  \/ EndRun
  \/ DoLoadColumns
  \/ OpenCandles
  \/ ReadRecord
  \/ CandlesFinally
  \/ ConvertReturn

Spec == Init /\ [][Next]_vars

TypeOK ==
  /\ pc \in {"idle", "loop", "convert", "load_candles", "records", "finally",
             "return", "except", "done", "aborted"}
  /\ idx \in 1..(nstocks + 1)
  /\ flen # None => cursor \in 0..flen

(***************************************************************************)
(* Properties of the conversion run.                                       *)
(***************************************************************************)
slots == Len(colobjs)

PopCount(b) == Cardinality({i \in 0..7 : BitSet(b, i)})

\* the indices 1..n whose stock was selected, in index order
RECURSIVE SelectedUpTo(_)
SelectedUpTo(n) ==
  IF n = 0 THEN <<>>
  ELSE IF selLog[n] THEN Append(SelectedUpTo(n - 1), n)
  ELSE SelectedUpTo(n - 1)

Increasing(s) == \A a, b \in 1..Len(s) : a < b => s[a] < s[b]

\* the slot (1-based) of the date column, 0 when the schema has none
DateSlot ==
  IF \E j \in 1..slots : colobjs[j].cls = "DateColumn"
  THEN CHOOSE j \in 1..slots : colobjs[j].cls = "DateColumn"
  ELSE 0

\* record k (0-based) of the data file is dated at or after the cutoff
Passes(k) ==
  DateSlot = 0 \/ DateFormat(float2date(recs[k + 1][DateSlot])) >= yyyymmdd

IsHeaderName(t) == t.t = "hname"
IsHeaderEnd(t) == t.t = "nl" /\ t.k = -1
IsDataEnd(t) == t.t = "nl" /\ t.k >= 0

C2_HeaderOnceLinesMatchCutoff ==
  /\ Len(SelectSeq(out, IsHeaderName)) <= 1
  /\ pc \in {"records", "return"} =>
       /\ Len(SelectSeq(out, IsHeaderName)) = 1
       /\ Len(SelectSeq(out, IsHeaderEnd)) = 1
       /\ Len(SelectSeq(out, IsDataEnd))
            = Cardinality({k \in 0..(recIdx - 1) : Passes(k)})
  /\ pc = "return" =>
       /\ recIdx = Max(0, last_rec - 1)
       /\ yyyymmdd = 0 => Len(SelectSeq(out, IsDataEnd)) = Max(0, last_rec - 1)

\* a conversion ended with a cutoff set, one record filtered and one written
C2_Witness ==
  /\ pc = "return" /\ yyyymmdd > 0 /\ recIdx = 2 /\ DateSlot > 0
  /\ ~Passes(0) /\ Passes(1)
  /\ Len(SelectSeq(out, IsDataEnd)) = 1

\* the claim of C3 for record k: no text when it is below the cutoff, else
\* one line: the display name, the values of the active known columns in
\* schema order, the line end
Norm(t) == [t |-> t.t, j |-> IF t.t = "val" THEN t.j ELSE -1, v |-> t.v]

RECURSIVE ActiveValues(_, _)
ActiveValues(k, j) ==
  IF j > slots THEN <<>>
  ELSE IF cur.bits[j] = 1 /\ ~IsNone(colobjs[j])
  THEN <<[t |-> "val", j |-> j - 1,
          v |-> FormatValue(colobjs[j].cls, recs[k + 1][j])]>>
       \o ActiveValues(k, j + 1)
  ELSE ActiveValues(k, j + 1)

ExpectedLine(k) ==
  IF ~Passes(k) THEN <<>>
  ELSE <<[t |-> "sname", j |-> -1, v |-> 0]>> \o ActiveValues(k, 1)
       \o <<[t |-> "nl", j |-> -1, v |-> 0]>>

TextOf(k) ==
  LET OfRecord(t) == t.k = k
      toks == SelectSeq(out, OfRecord)
  IN [n \in 1..Len(toks) |-> Norm(toks[n])]

\* C3: for a schema with a date column, in whatever slot: a record below the
\* cutoff contributes no text; a record that passes is one line: the display
\* name first, then exactly the values of its active, known columns in
\* schema order.
C3_LinesHoldActiveKnownColumns ==
  (pc = "return" /\ DateSlot > 0) => \A k \in 0..(recIdx - 1) : TextOf(k) = ExpectedLine(k)

\* the slots of the resolved schema whose bit is set
ActiveCount == Cardinality({i \in 1..Len(cur.columns) : cur.bits[i] = 1})

\* C4: with bit_fields present, _load_columns leaves num_fields at the
\* popcount of bit_fields and the resolved schema has that many active
\* columns.
C4_BitmaskPrecedence ==
  (pc = "load_candles" /\ Truthy(cur.bit_fields)) =>
     /\ cur.num_fields = PopCount(cur.bit_fields)
     /\ ActiveCount = PopCount(cur.bit_fields)

\* C5: with bit_fields absent, resolving the schema of a symbol whose DOP
\* file exists does not fail: every slot is active and the conversion goes on.
C5_AbsentBitFieldsConverts ==
  (cur.bit_fields = None /\ dopfound) => exc \notin {"IndexError", "AssertionError"}

\* C8: in the record loop the cursor sits at 4 * num_fields +
\* 4 * (records done * slots) as long as the file has not ended, and every
\* value decoded for slot j of record k was read at offset
\* 4 * num_fields + 4 * (k * slots + j) and is the word the file holds there.
C8_PositionalReads ==
  pc \in {"records", "finally", "return"} =>
    /\ \A n \in 1..Len(reads) :
         LET r == reads[n]
         IN /\ r.off = 4 * cur.num_fields + 4 * (r.k * slots + r.j)
            /\ r.j + 1 <= Len(recs[r.k + 1])
            /\ r.w = recs[r.k + 1][r.j + 1]
    /\ (pc \in {"records", "return"} /\ flen = None) =>
         cursor = 4 * cur.num_fields + 4 * (recIdx * slots)
    /\ (pc \in {"records", "return"} /\ flen # None) => cursor = flen

\* the second record's second slot was decoded behind an unknown column,
\* after a first record that the cutoff filtered
C8_Witness ==
  /\ pc = "return" /\ slots = 2 /\ IsNone(colobjs[1]) /\ recIdx = 2
  /\ ~Passes(0)
  /\ \E n \in 1..Len(reads) : reads[n].k = 1 /\ reads[n].j = 1

\* C9: once _load_columns or load_candles is left, on whatever path, no
\* file handle of the symbol is open.
C9_HandlesClosed ==
  /\ pc \in {"loop", "done", "aborted", "return", "except", "load_candles"}
       => handles = {}
  /\ handles \subseteq {"dat", "csv"}

\* a decode failure in the record loop, with both files opened, left none open
C9_Witness ==
  /\ pc = "except" /\ exc = "ValueError" /\ recIdx = 1 /\ Len(out) > 0
  /\ handles = {}

(***************************************************************************)
(* Index files: MSEMasterFile ("A"), MSXMasterFile ("B"), MSMasterFile     *)
(* ("C").  A string field is the sequence of its bytes (0 is the null      *)
(* byte); a typed field is the number struct.unpack gives.                 *)
(***************************************************************************)
Skip(n) == [f |-> "", n |-> n, kind |-> "padding"]
Typed(f, n) == [f |-> f, n |-> n, kind |-> "typed"]
Str(f, n) == [f |-> f, n |-> n, kind |-> "string"]

\* the reads of MSEMasterFile._read_file_info, in order
LayoutA ==
  <<Skip(2), Typed("file_num", 1), Skip(3), Typed("num_fields", 1),
    Typed("bit_fields", 1), Skip(3), Str("stock_symbol", 14), Skip(7),
    Str("stock_name", 16), Skip(12), Typed("time_frame", 1), Skip(3),
    Typed("first_date", 4), Skip(4), Typed("last_date", 4), Skip(116)>>

\* the reads of MSXMasterFile._read_file_info
LayoutB ==
  <<Skip(1), Str("stock_symbol", 15), Str("stock_name", 46),
    Typed("time_frame", 1), Skip(2), Typed("file_num", 2), Skip(3),
    Typed("bit_fields", 1), Skip(9), Typed("last_date", 4), Skip(20),
    Typed("first_date", 4), Skip(4 + 4 + 4 + 30)>>

\* the reads of MSMasterFile._read_file_info
LayoutC ==
  <<Typed("file_num", 1), Skip(6), Str("stock_name", 16), Skip(2),
    Typed("first_date", 4), Typed("last_date", 4), Skip(3),
    Str("stock_symbol", 14), Skip(3)>>

\* the reads of the three __init__ before the record loop
HeaderA == <<Typed("files_no", 2), Typed("last_file", 2), Skip(188)>>
HeaderB == <<Skip(1 + 1 + 2 + 6), Typed("files_no", 2),
             Skip(2 + 2 + 2 + 2 + 130)>>
HeaderC == <<Typed("files_no", 2), Skip(51)>>

Layout(f) == CASE f = "A" -> LayoutA [] f = "B" -> LayoutB [] OTHER -> LayoutC
Header(f) == CASE f = "A" -> HeaderA [] f = "B" -> HeaderB [] OTHER -> HeaderC

RECURSIVE Size(_)
Size(layout) ==
  IF layout = <<>> THEN 0 ELSE Head(layout).n + Size(Tail(layout))

\* the width of string field f in a layout
RECURSIVE WidthOf(_, _)
WidthOf(layout, f) ==
  IF Head(layout).f = f THEN Head(layout).n ELSE WidthOf(Tail(layout), f)

\* the kind of field the byte at offset `at` belongs to
RECURSIVE KindAt(_, _)
KindAt(layout, at) ==
  IF at < Head(layout).n THEN Head(layout).kind
  ELSE KindAt(Tail(layout), at - Head(layout).n)

\* str.find('\x00'): 0-based position of the first null, -1 without one
find0(str) ==
  IF \E i \in 1..Len(str) : str[i] = 0
  THEN (CHOOSE i \in 1..Len(str) :
          str[i] = 0 /\ \A h \in 1..(i - 1) : str[h] # 0) - 1
  ELSE -1

\* str.strip('\x00')
strip0(str) ==
  IF \A i \in 1..Len(str) : str[i] = 0 THEN <<>>
  ELSE LET a == CHOOSE i \in 1..Len(str) :
                  str[i] # 0 /\ \A h \in 1..(i - 1) : str[h] = 0
           b == CHOOSE i \in 1..Len(str) :
                  str[i] # 0 /\ \A h \in (i + 1)..Len(str) : str[h] = 0
       IN SubSeq(str, a, b)

\* if s.find('\x00') > 0: s = s[0:s.find('\x00')]
CutAtFound(str) ==
  IF find0(str) > 0 THEN SubSeq(str, 1, find0(str)) ELSE str

\* a fresh DataFileInfo: the class attributes
NewDfi ==
  [file_num |-> None, num_fields |-> None, bit_fields |-> None,
   stock_symbol |-> <<>>, stock_name |-> <<>>, time_frame |-> None,
   first_date |-> None, last_date |-> None]

\* the reads of a layout from field i on, of a record the stream has only
\* `avail` bytes of: a typed field that comes short raises struct.error, a
\* string field that comes short is the bytes there are
RECURSIVE ReadFields(_, _, _, _, _, _)
ReadFields(layout, i, pos, avail, rec, acc) ==
  IF i > Len(layout) \/ acc.exc # "none" THEN acc
  ELSE
    LET fld == layout[i]
        got == Min(fld.n, Max(0, avail - pos))
    IN CASE fld.kind = "padding" ->
              ReadFields(layout, i + 1, pos + fld.n, avail, rec, acc)
         [] fld.kind = "typed" ->
              IF got < fld.n THEN [acc EXCEPT !.exc = "struct.error"]
              ELSE ReadFields(layout, i + 1, pos + fld.n, avail, rec,
                     [acc EXCEPT !.dfi = [@ EXCEPT ![fld.f] = rec[fld.f]]])
         [] OTHER ->
              ReadFields(layout, i + 1, pos + fld.n, avail, rec,
                     [acc EXCEPT !.dfi =
                        [@ EXCEPT ![fld.f] = SubSeq(rec[fld.f], 1, got)]])

RawRead(f, rec, avail) ==
  ReadFields(Layout(f), 1, 0, avail, rec, [exc |-> "none", dfi |-> NewDfi])

\* MSEMasterFile._read_file_info: is the record dropped (return None); the
\* variant tests first_date only
BadDates_FirstOnly(dfi) == dfi.first_date = NoDate
BadDates(dfi) == dfi.first_date = NoDate \/ dfi.last_date = NoDate

\* _read_file_info of the three classes on a record of `avail` bytes:
\* [exc, dfi, kept]
ReadFileInfo(f, rec, avail) ==
  LET r == RawRead(f, rec, avail)
      d == r.dfi
  IN IF r.exc # "none" THEN [exc |-> r.exc, dfi |-> d, kept |-> FALSE]
     ELSE CASE f = "A" ->
                 LET dfi == [d EXCEPT
                               !.stock_symbol = strip0(@),
                               !.stock_name = CutAtFound(strip0(@)),
                               !.first_date = float2date(@),
                               !.last_date = float2date(@)]
                 IN [exc |-> "none", dfi |-> dfi, kept |-> ~BadDates(dfi)]
            [] OTHER ->
                 [exc |-> "none",
                  dfi |-> [d EXCEPT !.stock_symbol = CutAtFound(@),
                                    !.stock_name = CutAtFound(@)],
                  kept |-> TRUE]

\* the bytes of a string field of width n: with a leading null, with an
\* embedded null, without any null
Pad(str, n) == [i \in 1..n |-> IF i <= Len(str) THEN str[i] ELSE 0]
StrKinds == {"leading", "embedded", "full"}
StrBytes(kind, n) ==
  CASE kind = "leading"  -> Pad(<<0, 65>>, n)
    [] kind = "embedded" -> Pad(<<65, 0, 66>>, n)
    [] OTHER             -> [i \in 1..n |-> 65]

\* the date words of an index record: no date, 2020-01-02
IndexDates == {<<1200102, 1200102>>, <<0, 1200102>>, <<1200102, 0>>}

\* the records an index file of format f can hold at position n: files are
\* numbered by position, both strings are of one kind
RecordSet(f, n) ==
  {[file_num |-> n, num_fields |-> 7, bit_fields |-> 127,
    stock_symbol |-> StrBytes(c, WidthOf(Layout(f), "stock_symbol")),
    stock_name |-> StrBytes(c, WidthOf(Layout(f), "stock_name")),
    time_frame |-> 68, first_date |-> d[1], last_date |-> d[2]] :
     c \in StrKinds, d \in IndexDates}

ConvertIdle ==
  /\ pc = "idle" /\ nstocks = 0 /\ yyyymmdd = 0 /\ idx = 1
  /\ selLog = <<>> /\ called = <<>> /\ reported = <<>>
  /\ exc = "none" /\ handles = {}
  /\ Scratch

InitIndex ==
  /\ ipc = "start"
  /\ fmt \in {"A", "B", "C"}
  /\ files_no = 0 /\ record_count = 0
  /\ stocks = <<>> /\ raw = <<>> /\ short = "no" /\ ihandle = FALSE
  /\ ConvertIdle

\* __init__ up to the loop: open, read the header.  avail: the bytes the
\* stream has for the header
ReadHeader ==
  /\ ipc = "start"
  /\ \E avail \in 0..Size(Header(fmt)), count \in 0..MaxIndexRecs :
       LET r == ReadFields(Header(fmt), 1, 0, avail,
                           [files_no |-> count, last_file |-> count],
                           [exc |-> "none",
                            dfi |-> [files_no |-> 0, last_file |-> 0]])
           ended == avail < Size(Header(fmt))
       IN /\ ihandle' = TRUE
          /\ short' = IF ended THEN "header" ELSE "no"
          /\ IF r.exc # "none"
             THEN /\ ipc' = "failed"
                  /\ UNCHANGED <<files_no, record_count>>
             ELSE /\ ipc' = "records"
                  /\ files_no' = r.dfi.files_no
                  /\ record_count' = r.dfi.files_no
  /\ UNCHANGED <<fmt, stocks, raw, cvars>>

\* one iteration of `while files_no > 0`.  avail: the bytes the stream has
\* for this record
ReadInfo ==
  /\ ipc = "records" /\ files_no > 0
  /\ \E avail \in (IF short = "no" THEN 0..Size(Layout(fmt)) ELSE {0}) :
     \E rec \in RecordSet(fmt, Len(raw) + 1) :
       LET r == ReadFileInfo(fmt, rec, avail)
           ended == avail < Size(Layout(fmt))
           asread == RawRead(fmt, rec, avail).dfi
       IN /\ short' = IF short = "no" /\ ended
                      THEN KindAt(Layout(fmt), avail) ELSE short
          /\ IF r.exc # "none"
             THEN /\ ipc' = "failed"
                  /\ UNCHANGED <<files_no, stocks, raw>>
             ELSE /\ ipc' = "records"
                  /\ files_no' = files_no - 1
                  /\ raw' = Append(raw, asread)
                  /\ stocks' = IF r.kept THEN Append(stocks, r.dfi)
                               ELSE stocks
  /\ UNCHANGED <<fmt, record_count, ihandle, cvars>>

\* the loop is over: file_handle.close()
CloseIndex ==
  /\ ipc = "records" /\ files_no <= 0
  /\ ipc' = "closed" /\ ihandle' = FALSE
  /\ UNCHANGED <<fmt, files_no, record_count, stocks, raw, short, cvars>>

NextIndex ==
  \/ ReadHeader
  \/ ReadInfo
  \/ CloseIndex

SpecIndex == InitIndex /\ [][NextIndex]_vars

(***************************************************************************)
(* Properties of index parsing.                                            *)
(***************************************************************************)
\* both date words of a record as read decode to a date
DatesDecode(r) ==
  float2date(r.first_date) # NoDate /\ float2date(r.last_date) # NoDate
DatesFail(r) == ~DatesDecode(r)

\* the records read so far that the parser is to keep
KeptRaw == IF fmt = "A" THEN SelectSeq(raw, DatesDecode) ELSE raw

\* C6: EMASTER: a record one of whose dates does not decode is left out
\* without failing the parse; stocks is the subsequence, in storage order, of
\* the records read whose two dates decode, so that at the end its length is
\* the record count minus the rejected records.
C6_EMasterKeepsDatedRecords ==
  fmt = "A" =>
    /\ Len(stocks) = Len(KeptRaw)
    /\ \A i \in 1..Len(stocks) :
         /\ i <= Len(KeptRaw)
         /\ stocks[i].file_num = KeptRaw[i].file_num
         /\ stocks[i].first_date = float2date(KeptRaw[i].first_date)
         /\ stocks[i].last_date = float2date(KeptRaw[i].last_date)
         /\ stocks[i].first_date # NoDate /\ stocks[i].last_date # NoDate
    /\ short = "no" => ipc # "failed"
    /\ (ipc = "closed" /\ short = "no") =>
         /\ Len(raw) = record_count
         /\ Len(stocks) = record_count - Len(SelectSeq(raw, DatesFail))

\* of two records the first was rejected and the second kept
C6_Witness ==
  /\ fmt = "A" /\ ipc = "closed" /\ short = "no" /\ record_count = 2
  /\ Len(stocks) = 1 /\ stocks[1].file_num = 2
  /\ float2date(raw[1].last_date) = NoDate

\* C7: a stream that ends inside a record, in whatever kind of field, makes
\* the parse fail: it is never completed with a symbol list.
C7_TruncatedIndexFails ==
  short \in {"typed", "string", "padding"} => ipc # "closed"

\* a raw field cut at its first null byte
FirstNullCut(str) ==
  IF find0(str) >= 0 THEN SubSeq(str, 1, find0(str)) ELSE str

\* C10: stock_symbol and stock_name of a parsed record are the raw fields
\* cut at their first null byte (so without any null byte, and empty when
\* the first byte is null).
C10_StringsCutAtFirstNull ==
  \A i \in 1..Len(stocks) :
    i <= Len(KeptRaw) =>
      /\ stocks[i].stock_symbol = FirstNullCut(KeptRaw[i].stock_symbol)
      /\ stocks[i].stock_name = FirstNullCut(KeptRaw[i].stock_name)

====
